---- MODULE Spec2Model ----
(***************************************************************************)
(* Model of deploy.py: a capacity-doubling deployment against an auto      *)
(* scaling group (ASG) fronted by an elastic load balancer (ELB).          *)
(*                                                                         *)
(* The orchestrator (deploy) is one sequential process whose position is   *)
(* pc.  The cloud provider is the environment: it launches, registers and  *)
(* scales in instances on its own, moves the desired capacity when an      *)
(* alarm fires while AlarmNotification is not suspended, and may fail any  *)
(* API call.                                                               *)
(***************************************************************************)
EXTENDS Integers, FiniteSets, Sequences, TLC

\* ---------------------------------------------------------------- bounds
\* largest MaxSize of the deployed group, and the number of instance ids it
\* can use
MaxCap == 4

\* ------------------------------------------------------ program constants
PollInterval == 30
Ceiling == 900
ExitCapacity == 4
ExitTimeout == 5
\* an exception that reaches the top of the interpreter ends it with status 1
ExitError == 1

\* ------------------------------------------------------------- universe
\* instance ids the deployed group can own, in launch order
GroupIds == 1..MaxCap
\* one instance of another scaling group visible to the same credentials
OtherId == MaxCap + 1
AllIds == GroupIds \cup {OtherId}

NoneVal == [isNone |-> TRUE, ids |-> {}]
List(S) == [isNone |-> FALSE, ids |-> S]

\* what a direct call of an EC2 method got: the method, its argument, the
\* value returned, whether it raised
Returned(op, arg, out, exc) ==
  [op |-> op, arg |-> arg, out |-> out, raised |-> exc]

NoReturn == Returned("none", NoneVal, NoneVal, FALSE)

StepOrder ==
  <<"Preflight", "Mark", "Freeze", "Double", "AwaitASG", "AwaitELB",
    "Retire", "Restore", "Unfreeze">>

VARIABLES
  pc,                        \* position of deploy
  exitCode,                  \* -1 while deploy runs, else the process status
  steps,                     \* the steps deploy has executed, in order
  calls,                     \* mutating provider calls issued, in order
  raised,                    \* the provider call that failed, if one did
  desired,                   \* DesiredCapacity of the deployed group
  maxSize,                   \* MaxSize of the deployed group
  suspended,                 \* suspended scaling processes of the group
  status,                    \* lifecycle of every instance
  tagged,                    \* instances carrying Terminate-After-Deploy=true
  resv,                      \* reservation each instance was launched in
  alarmFired,                \* an alarm has moved the desired capacity
  original_desired_capacity, \* deploy's local, line 214
  current_desired_capacity,  \* deploy's local, line 227
  time_spent_waiting,        \* deploy's local, lines 229 and 246
  current_asg_healhty_instances, \* deploy's local, line 232
  current_elb_healthy_instances, \* deploy's local, line 249
  existing_instances,        \* deploy's local, line 218
  instances_to_terminate,    \* deploy's local, line 275
  ret                        \* last value returned to a direct caller of EC2

vars ==
  <<pc, exitCode, steps, calls, raised, desired, maxSize, suspended, status, tagged,
    resv, alarmFired, original_desired_capacity, current_desired_capacity,
    time_spent_waiting, current_asg_healhty_instances,
    current_elb_healthy_instances, existing_instances,
    instances_to_terminate, ret>>

asgVars == <<desired, maxSize, suspended, alarmFired>>
ec2Vars == <<status, tagged, resv>>
envVars == <<asgVars, ec2Vars>>
progVars == <<pc, exitCode, steps, calls, raised>>
localVars ==
  <<original_desired_capacity, current_desired_capacity, time_spent_waiting,
    current_asg_healhty_instances, current_elb_healthy_instances,
    existing_instances, instances_to_terminate>>

\* ------------------------------------------------- ElasticLoadBalancer
\* instances the load balancer reports InService
ElbInService(st) == {i \in GroupIds : st[i] = "Healthy"}

ELB_get_healthy_instance_count == Cardinality(ElbInService(status))

\* --------------------------------------------------- AutoScalingGroup
\* the process types a scaling group can have suspended
ScalingProcesses ==
  {"Launch", "Terminate", "HealthCheck", "ReplaceUnhealthy", "AZRebalance",
   "AlarmNotification", "ScheduledActions", "AddToLoadBalancer"}

\* mutant: the list names a second process
Processes_with_launch == {"AlarmNotification", "Launch"}

\* self.processes
Processes == {"AlarmNotification"}

\* the suspended processes after suspend_processes / resume_processes
suspend_processes(susp) == susp \cup Processes

resume_processes(susp) == susp \ Processes

\* members of the deployed group, whatever their lifecycle state
Members(st) == {i \in GroupIds : st[i] \in {"Pending", "InService", "Healthy"}}

get_desired_capacity == desired

get_new_desired_capacity == 2 * desired

get_max_capacity == maxSize

\* mutant: the gate tested with < in place of <=
has_enough_capacity_strict == get_new_desired_capacity < get_max_capacity

has_enough_capacity == get_new_desired_capacity <= get_max_capacity

get_instance_ids == Members(status)

\* describe_auto_scaling_instances is called without a group name: it lists
\* the instances of every scaling group
ASG_get_healthy_instance_count ==
  Cardinality({i \in AllIds : status[i] \in {"InService", "Healthy"}})

\* set_desired_capacity: the provider refuses a capacity above MaxSize
set_desired_capacity_accepted(new_desired_capacity) ==
  new_desired_capacity <= maxSize

\* ------------------------------------------------------------------ EC2
\* instances describe_instances can list
Exists(st) == {i \in AllIds : st[i] \notin {"none", "terminated", "failed"}}

\* instances matching the tag filter
Matching == tagged \cap Exists(status)

\* mutant: a second tagging takes the tag off again
tag_instances_toggling(tags, instance_ids) ==
  (tags \ instance_ids) \cup (instance_ids \ tags)

\* create_tags on the given resources: the instances carrying the tag after
\* the call, tags being those carrying it before
tag_instances(tags, instance_ids) == tags \cup instance_ids

mark_instances_for_termination(instance_ids) ==
  tag_instances(tagged, instance_ids)

\* mutant: only a failed call is caught, a missing reservation is not
get_instances_marked_for_termination_uncaught(fails) ==
  IF fails
  THEN {{}}
  ELSE {{i \in Matching : resv[i] = r} : r \in {resv[j] : j \in Matching}}

\* The values get_instances_marked_for_termination can return.  The provider
\* groups the matching instances by reservation, in an order it does not
\* document; the code reads ['Reservations'][0] only.  Any exception (a
\* failed call, or no reservation at all) is swallowed and gives [].
get_instances_marked_for_termination(fails) ==
  IF fails \/ Matching = {}
  THEN {{}}
  ELSE {{i \in Matching : resv[i] = r} : r \in {resv[j] : j \in Matching}}

\* mutant: only None is tested, an empty list reaches the provider
terminate_calls_provider_unless_none(instance_ids) == ~instance_ids.isNone

\* terminate_instances calls the provider only for a non-empty sequence
terminate_calls_provider(instance_ids) ==
  /\ ~instance_ids.isNone
  /\ instance_ids.ids # {}
  /\ Cardinality(instance_ids.ids) > 0

\* lifecycle after the provider accepted terminate_instances(ids)
Terminated(st, ids) ==
  [i \in AllIds |-> IF i \in ids /\ st[i] # "none" THEN "terminated" ELSE st[i]]

\* ------------------------------------------------------------- initial
\* A group in steady state that runs the application: desired >= 1 members,
\* all in service at the load balancer.  They were launched in one
\* reservation or one by one.  The other group's instance may carry a marker
\* left by an earlier run.
SharedResv == MaxCap + 2

InitResv(d) ==
  {[i \in AllIds |-> i],
   [i \in AllIds |-> IF i \in 1..d THEN SharedResv ELSE i]}

\* everything but the processes the group has suspended
Constructed ==
  /\ pc = "Preflight"
  /\ exitCode = -1
  /\ steps = <<>>
  /\ calls = <<>>
  /\ raised = "none"
  /\ maxSize \in 1..MaxCap
  /\ desired \in 1..maxSize
  /\ \E other \in {"none", "InService"} :
       status = [i \in AllIds |->
                   IF i = OtherId THEN other
                   ELSE IF i <= desired THEN "Healthy" ELSE "none"]
  /\ tagged \in SUBSET {OtherId}
  /\ tagged \subseteq Exists(status)
  /\ resv \in InitResv(desired)
  /\ alarmFired = FALSE
  /\ original_desired_capacity = 0
  /\ current_desired_capacity = 0
  /\ time_spent_waiting = 0
  /\ current_asg_healhty_instances = 0
  /\ current_elb_healthy_instances = 0
  /\ existing_instances = {}
  /\ instances_to_terminate = {}
  /\ ret = NoReturn

\* deploy starts on a group whose processes are all active
Init ==
  /\ Constructed
  /\ suspended = {}

\* ------------------------------------------------------------- helpers
Call(op, ids, n) == [op |-> op, ids |-> ids, n |-> n]

Running == pc # "done"

\* mutant: the process ends without its status
Exit_without_status(code) ==
  /\ pc' = "done"
  /\ exitCode' = 0

\* sys.exit(code), or an exception nobody catches
Exit(code) ==
  /\ pc' = "done"
  /\ exitCode' = code

Begin(step) == steps' = Append(steps, step)

\* ---------------------------------------------------------------- deploy
\* lines 202-212: construct the views, check the capacity gate
Preflight ==
  /\ pc = "Preflight"
  /\ Begin("Preflight")
  /\ IF ~has_enough_capacity
     THEN Exit(ExitCapacity)
     ELSE pc' = "Mark" /\ UNCHANGED exitCode
  /\ UNCHANGED <<calls, raised, envVars, localVars, ret>>

\* lines 214-219: capture the original capacity, tag the current members
Mark ==
  /\ pc = "Mark"
  /\ Begin("Mark")
  /\ original_desired_capacity' = get_desired_capacity
  /\ existing_instances' = get_instance_ids
  /\ tagged' = mark_instances_for_termination(get_instance_ids)
  /\ calls' = Append(calls, Call("create_tags", get_instance_ids, 0))
  /\ pc' = "Freeze"
  /\ UNCHANGED <<exitCode, raised, asgVars, status, resv,
                 current_desired_capacity, time_spent_waiting,
                 current_asg_healhty_instances, current_elb_healthy_instances,
                 instances_to_terminate, ret>>

\* mutant: the step passes without suspending anything
Freeze_without_suspend ==
  /\ pc = "Freeze"
  /\ Begin("Freeze")
  /\ calls' = Append(calls, Call("suspend_processes", {}, 0))
  /\ pc' = "Double"
  /\ UNCHANGED <<exitCode, raised, asgVars, ec2Vars, localVars, ret>>

\* lines 221-222
Freeze ==
  /\ pc = "Freeze"
  /\ Begin("Freeze")
  /\ suspended' = suspend_processes(suspended)
  /\ calls' = Append(calls, Call("suspend_processes", {}, 0))
  /\ pc' = "Double"
  /\ UNCHANGED <<exitCode, raised, desired, maxSize, alarmFired, ec2Vars,
                 localVars, ret>>

\* lines 224-225: double_in_size reads the desired capacity again
Double ==
  /\ pc = "Double"
  /\ Begin("Double")
  /\ set_desired_capacity_accepted(get_new_desired_capacity)
  /\ desired' = get_new_desired_capacity
  /\ calls' = Append(calls, Call("set_desired_capacity", {}, get_new_desired_capacity))
  /\ pc' = "AwaitASG"
  /\ UNCHANGED <<exitCode, raised, maxSize, suspended, alarmFired, ec2Vars,
                 localVars, ret>>

\* the provider rejects the doubled capacity: the exception ends the run
DoubleRejected ==
  /\ pc = "Double"
  /\ Begin("Double")
  /\ ~set_desired_capacity_accepted(get_new_desired_capacity)
  /\ raised' = "set_desired_capacity"
  /\ Exit(ExitError)
  /\ UNCHANGED <<calls, envVars, localVars, ret>>

\* mutant: the test fires one interval early
TimedOut_one_early(waited) == waited >= Ceiling - PollInterval

\* the timeout test of both polling loops, lines 241 and 258
TimedOut(waited) == waited >= Ceiling

\* lines 227-232: read the target, start the first timer, first count
AwaitASG ==
  /\ pc = "AwaitASG"
  /\ Begin("AwaitASG")
  /\ current_desired_capacity' = get_desired_capacity
  /\ time_spent_waiting' = 0
  /\ current_asg_healhty_instances' = ASG_get_healthy_instance_count
  /\ pc' = "PollASG"
  /\ UNCHANGED <<exitCode, calls, raised, envVars, original_desired_capacity,
                 current_elb_healthy_instances, existing_instances,
                 instances_to_terminate, ret>>

\* mutant: the timeout resumes the processes before it exits
PollASG_resumes_on_timeout ==
  /\ pc = "PollASG"
  /\ current_asg_healhty_instances < current_desired_capacity
  /\ time_spent_waiting' = time_spent_waiting + PollInterval
  /\ IF TimedOut(time_spent_waiting')
     THEN /\ Exit(ExitTimeout)
          /\ suspended' = resume_processes(suspended)
          /\ UNCHANGED current_asg_healhty_instances
     ELSE /\ current_asg_healhty_instances' = ASG_get_healthy_instance_count
          /\ UNCHANGED <<pc, exitCode, suspended>>
  /\ UNCHANGED <<steps, calls, raised, desired, maxSize, alarmFired, ec2Vars,
                 original_desired_capacity, current_desired_capacity,
                 current_elb_healthy_instances, existing_instances,
                 instances_to_terminate, ret>>

\* lines 233-244: one iteration of the first loop
PollASG ==
  /\ pc = "PollASG"
  /\ current_asg_healhty_instances < current_desired_capacity
  /\ time_spent_waiting' = time_spent_waiting + PollInterval
  /\ IF TimedOut(time_spent_waiting')
     THEN /\ Exit(ExitTimeout)
          /\ UNCHANGED current_asg_healhty_instances
     ELSE /\ current_asg_healhty_instances' = ASG_get_healthy_instance_count
          /\ UNCHANGED <<pc, exitCode>>
  /\ UNCHANGED <<steps, calls, raised, envVars, original_desired_capacity,
                 current_desired_capacity, current_elb_healthy_instances,
                 existing_instances, instances_to_terminate, ret>>

\* mutant: the second loop starts although the first has not met the target
AwaitELB_without_asg ==
  /\ pc = "PollASG"
  /\ Begin("AwaitELB")
  /\ time_spent_waiting' = 0
  /\ current_elb_healthy_instances' = ELB_get_healthy_instance_count
  /\ pc' = "PollELB"
  /\ UNCHANGED <<exitCode, calls, raised, envVars, original_desired_capacity,
                 current_desired_capacity, current_asg_healhty_instances,
                 existing_instances, instances_to_terminate, ret>>

\* mutant: the second loop goes on with the first loop's counter
AwaitELB_keeps_counter ==
  /\ pc = "PollASG"
  /\ ~(current_asg_healhty_instances < current_desired_capacity)
  /\ Begin("AwaitELB")
  /\ current_elb_healthy_instances' = ELB_get_healthy_instance_count
  /\ pc' = "PollELB"
  /\ UNCHANGED <<exitCode, calls, raised, envVars, original_desired_capacity,
                 current_desired_capacity, time_spent_waiting,
                 current_asg_healhty_instances, existing_instances,
                 instances_to_terminate, ret>>

\* lines 233, 246-249: the first loop ends, the second timer and count start
AwaitELB ==
  /\ pc = "PollASG"
  /\ ~(current_asg_healhty_instances < current_desired_capacity)
  /\ Begin("AwaitELB")
  /\ time_spent_waiting' = 0
  /\ current_elb_healthy_instances' = ELB_get_healthy_instance_count
  /\ pc' = "PollELB"
  /\ UNCHANGED <<exitCode, calls, raised, envVars, original_desired_capacity,
                 current_desired_capacity, current_asg_healhty_instances,
                 existing_instances, instances_to_terminate, ret>>

\* mutant: the timeout leaves the loop instead of the process
PollELB_falls_through ==
  /\ pc = "PollELB"
  /\ current_elb_healthy_instances < current_desired_capacity
  /\ time_spent_waiting' = time_spent_waiting + PollInterval
  /\ IF time_spent_waiting' >= Ceiling
     THEN /\ pc' = "Retire"
          /\ UNCHANGED <<exitCode, current_elb_healthy_instances>>
     ELSE /\ current_elb_healthy_instances' = ELB_get_healthy_instance_count
          /\ UNCHANGED <<pc, exitCode>>
  /\ UNCHANGED <<steps, calls, raised, envVars, original_desired_capacity,
                 current_desired_capacity, current_asg_healhty_instances,
                 existing_instances, instances_to_terminate, ret>>

\* lines 250-261: one iteration of the second loop
PollELB ==
  /\ pc = "PollELB"
  /\ current_elb_healthy_instances < current_desired_capacity
  /\ time_spent_waiting' = time_spent_waiting + PollInterval
  /\ IF TimedOut(time_spent_waiting')
     THEN /\ Exit(ExitTimeout)
          /\ UNCHANGED current_elb_healthy_instances
     ELSE /\ current_elb_healthy_instances' = ELB_get_healthy_instance_count
          /\ UNCHANGED <<pc, exitCode>>
  /\ UNCHANGED <<steps, calls, raised, envVars, original_desired_capacity,
                 current_desired_capacity, current_asg_healhty_instances,
                 existing_instances, instances_to_terminate, ret>>

\* lines 250, 263-271: the second loop ends
ELBHealthy ==
  /\ pc = "PollELB"
  /\ ~(current_elb_healthy_instances < current_desired_capacity)
  /\ pc' = "Retire"
  /\ UNCHANGED <<exitCode, steps, calls, raised, envVars, localVars, ret>>

\* lines 273-276: query the marked instances and terminate them.  A failing
\* query is swallowed by the bare except of the query.
Retire ==
  /\ pc = "Retire"
  /\ Begin("Retire")
  /\ \E fails \in BOOLEAN :
       \E marked \in get_instances_marked_for_termination(fails) :
         /\ instances_to_terminate' = marked
         /\ raised' = IF fails THEN "describe_instances" ELSE raised
         /\ IF terminate_calls_provider(List(marked))
            THEN /\ calls' = Append(calls, Call("terminate_instances", marked, 0))
                 /\ status' = Terminated(status, marked)
            ELSE UNCHANGED <<calls, status>>
  /\ pc' = "Restore"
  /\ UNCHANGED <<exitCode, asgVars, tagged, resv, original_desired_capacity,
                 current_desired_capacity, time_spent_waiting,
                 current_asg_healhty_instances, current_elb_healthy_instances,
                 existing_instances, ret>>

\* line 276: the provider fails the terminate call, which nobody catches
RetireFails ==
  /\ pc = "Retire"
  /\ Begin("Retire")
  /\ \E marked \in get_instances_marked_for_termination(FALSE) :
       /\ terminate_calls_provider(List(marked))
       /\ instances_to_terminate' = marked
  /\ raised' = "terminate_instances"
  /\ Exit(ExitError)
  /\ UNCHANGED <<calls, envVars, original_desired_capacity,
                 current_desired_capacity, time_spent_waiting,
                 current_asg_healhty_instances, current_elb_healthy_instances,
                 existing_instances, ret>>

\* mutant: the capacity is set to the doubled target, not to the original
Restore_to_current ==
  /\ pc = "Restore"
  /\ Begin("Restore")
  /\ set_desired_capacity_accepted(current_desired_capacity)
  /\ desired' = current_desired_capacity
  /\ calls' = Append(calls, Call("set_desired_capacity", {}, current_desired_capacity))
  /\ pc' = "Unfreeze"
  /\ UNCHANGED <<exitCode, raised, maxSize, suspended, alarmFired, ec2Vars,
                 localVars, ret>>

\* lines 278-283
Restore ==
  /\ pc = "Restore"
  /\ Begin("Restore")
  /\ set_desired_capacity_accepted(original_desired_capacity)
  /\ desired' = original_desired_capacity
  /\ calls' = Append(calls, Call("set_desired_capacity", {}, original_desired_capacity))
  /\ pc' = "Unfreeze"
  /\ UNCHANGED <<exitCode, raised, maxSize, suspended, alarmFired, ec2Vars,
                 localVars, ret>>

\* lines 285-286: the last statement of deploy; main returns, status 0
Unfreeze ==
  /\ pc = "Unfreeze"
  /\ Begin("Unfreeze")
  /\ suspended' = resume_processes(suspended)
  /\ calls' = Append(calls, Call("resume_processes", {}, 0))
  /\ Exit(0)
  /\ UNCHANGED <<raised, desired, maxSize, alarmFired, ec2Vars, localVars, ret>>

\* The step whose provider call is the next one deploy makes, when that call
\* can raise out of deploy: every call except the tag query of Retire (which
\* swallows) and the terminate call (RetireFails).
RaisingStep ==
  CASE pc \in {"Preflight", "Mark", "Freeze", "Double", "AwaitASG",
               "Restore", "Unfreeze"} -> {pc}
    [] pc = "PollASG" ->
         IF current_asg_healhty_instances < current_desired_capacity
         THEN (IF TimedOut(time_spent_waiting + PollInterval)
               THEN {} ELSE {"AwaitASG"})
         ELSE {"AwaitELB"}
    [] pc = "PollELB" ->
         IF /\ current_elb_healthy_instances < current_desired_capacity
            /\ ~TimedOut(time_spent_waiting + PollInterval)
         THEN {"AwaitELB"}
         ELSE {}
    [] OTHER -> {}

\* a provider call of the current step fails: the exception propagates out of
\* deploy and main, no later statement runs
ProviderError ==
  /\ \E step \in RaisingStep :
       /\ steps' = IF step \in {steps[k] : k \in 1..Len(steps)}
                   THEN steps ELSE Append(steps, step)
       /\ raised' = step
  /\ Exit(ExitError)
  /\ UNCHANGED <<calls, envVars, localVars, ret>>

\* ------------------------------------------------------------- provider
\* An alarm moves the desired capacity; AlarmNotification must be active.
\* The scaling cooldown outlasts the second or so deploy takes to reach
\* Freeze, so one alarm-driven change is all a run can meet.  The group keeps
\* at least one instance (its MinSize).
Alarm ==
  /\ Running
  /\ ~alarmFired
  /\ "AlarmNotification" \notin suspended
  /\ \E n \in 1..maxSize :
       /\ n # desired
       /\ desired' = n
  /\ alarmFired' = TRUE
  /\ UNCHANGED <<progVars, maxSize, suspended, ec2Vars, localVars, ret>>

\* Instances alike in everything the program can tell apart.  Among alike
\* instances in the same lifecycle state the provider's choice of one is a
\* renaming of the choice of another, so the lowest id stands for all.
Alike(i, j) ==
  /\ status[i] = status[j]
  /\ (i \in tagged) = (j \in tagged)
  /\ (i \in existing_instances) = (j \in existing_instances)
  /\ (resv[i] = i) = (resv[j] = j)

Lowest(i) == \A j \in GroupIds : j < i => ~Alike(i, j)

\* the group launches an instance while it has fewer members than desired
Launch ==
  /\ Running
  /\ Cardinality(Members(status)) < desired
  /\ \E i \in GroupIds :
       /\ status[i] = "none"
       /\ \A j \in GroupIds : j < i => status[j] # "none"
       /\ status' = [status EXCEPT ![i] = "Pending"]
  /\ UNCHANGED <<progVars, asgVars, tagged, resv, localVars, ret>>

\* a pending instance enters service in the group
EnterService ==
  /\ Running
  /\ \E i \in GroupIds :
       /\ status[i] = "Pending"
       /\ Lowest(i)
       /\ status' = [status EXCEPT ![i] = "InService"]
  /\ UNCHANGED <<progVars, asgVars, tagged, resv, localVars, ret>>

\* the load balancer's health check passes for an instance in service
Register ==
  /\ Running
  /\ \E i \in GroupIds :
       /\ status[i] = "InService"
       /\ Lowest(i)
       /\ status' = [status EXCEPT ![i] = "Healthy"]
  /\ UNCHANGED <<progVars, asgVars, tagged, resv, localVars, ret>>

\* the group terminates a member while it has more members than desired
ScaleIn ==
  /\ Running
  /\ Cardinality(Members(status)) > desired
  /\ \E i \in Members(status) :
       /\ Lowest(i)
       /\ status' = [status EXCEPT ![i] = "terminated"]
  /\ UNCHANGED <<progVars, asgVars, tagged, resv, localVars, ret>>

Next ==
  \/ Preflight
  \/ Mark
  \/ Freeze
  \/ Double
  \/ DoubleRejected
  \/ AwaitASG
  \/ PollASG
  \/ AwaitELB
  \/ PollELB
  \/ ELBHealthy
  \/ Retire
  \/ RetireFails
  \/ Restore
  \/ Unfreeze
  \/ ProviderError
  \/ Alarm
  \/ Launch
  \/ EnterService
  \/ Register
  \/ ScaleIn

Spec == Init /\ [][Next]_vars

\* A member fails (hardware, a reclaimed instance) and the provider ends it;
\* the group then launches a replacement.  One failure per run is explored.
InstanceFails ==
  /\ Running
  /\ \A j \in GroupIds : status[j] # "failed"
  /\ \E i \in Members(status) :
       /\ Lowest(i)
       /\ status' = [status EXCEPT ![i] = "failed"]
  /\ UNCHANGED <<progVars, asgVars, tagged, resv, localVars, ret>>

\* deploy and the provider without the alarm, with the failure of a member.
\* Without the alarm the capacity that passed the gate is still the capacity
\* at Double, so the provider has no doubled capacity to reject.
NextFailing ==
  \/ Preflight
  \/ Mark
  \/ Freeze
  \/ Double
  \/ AwaitASG
  \/ PollASG
  \/ AwaitELB
  \/ PollELB
  \/ ELBHealthy
  \/ Retire
  \/ RetireFails
  \/ Restore
  \/ Unfreeze
  \/ ProviderError
  \/ Launch
  \/ EnterService
  \/ Register
  \/ ScaleIn
  \/ InstanceFails

SpecFailing == Init /\ [][NextFailing]_vars

\* ----------------------------------------------- direct calls of EC2
\* The methods of EC2 called one at a time by any caller, on any instances.
\* Here calls holds the provider calls the last method call made.
CallMark ==
  \E S \in SUBSET Exists(status) :
    /\ tagged' = mark_instances_for_termination(S)
    /\ calls' = <<Call("create_tags", S, 0)>>
    /\ ret' = Returned("mark_instances_for_termination", List(S), NoneVal, FALSE)
    /\ UNCHANGED <<pc, exitCode, steps, raised, asgVars, status, resv, localVars>>

CallMarked ==
  \E fails \in BOOLEAN :
    \E marked \in get_instances_marked_for_termination(fails) :
      /\ calls' = <<>>
      /\ ret' = Returned("get_instances_marked_for_termination", NoneVal,
                         List(marked), FALSE)
      /\ UNCHANGED <<pc, exitCode, steps, raised, envVars, localVars>>

\* lines 177-184; the response lists the instances the provider terminates
CallTerminate ==
  \E instance_ids \in {NoneVal} \cup {List(S) : S \in SUBSET Exists(status)} :
    \E fails \in BOOLEAN :
      /\ IF terminate_calls_provider(instance_ids)
         THEN /\ calls' = <<Call("terminate_instances", instance_ids.ids, 0)>>
              /\ status' = IF fails THEN status
                           ELSE Terminated(status, instance_ids.ids)
              /\ ret' = Returned("terminate_instances", instance_ids,
                                 IF fails THEN NoneVal ELSE instance_ids, fails)
         ELSE /\ calls' = <<>>
              /\ status' = status
              /\ ret' = Returned("terminate_instances", instance_ids, NoneVal, FALSE)
      /\ UNCHANGED <<pc, exitCode, steps, raised, asgVars, tagged, resv, localVars>>

NextEC2 ==
  \/ CallMark
  \/ CallMarked
  \/ CallTerminate

SpecEC2 == Init /\ [][NextEC2]_vars

\* ------------------------------------ direct calls of AutoScalingGroup
\* suspend_processes and resume_processes called in any order, on a group
\* that may have any of its processes suspended already
InitASG ==
  /\ Constructed
  /\ suspended \in SUBSET ScalingProcesses

CallSuspend ==
  /\ suspended' = suspend_processes(suspended)
  /\ calls' = <<Call("suspend_processes", {}, 0)>>
  /\ ret' = Returned("suspend_processes", NoneVal, NoneVal, FALSE)
  /\ UNCHANGED <<pc, exitCode, steps, raised, desired, maxSize, alarmFired,
                 ec2Vars, localVars>>

CallResume ==
  /\ suspended' = resume_processes(suspended)
  /\ calls' = <<Call("resume_processes", {}, 0)>>
  /\ ret' = Returned("resume_processes", NoneVal, NoneVal, FALSE)
  /\ UNCHANGED <<pc, exitCode, steps, raised, desired, maxSize, alarmFired,
                 ec2Vars, localVars>>

NextASG ==
  \/ CallSuspend
  \/ CallResume

SpecASG == InitASG /\ [][NextASG]_vars

\* ------------------------------------------------------------- C1
\* what the orchestrator asked the provider to terminate
TerminateRequests ==
  UNION {calls[k].ids : k \in {n \in 1..Len(calls) : calls[n].op = "terminate_instances"}}

\* C1 (as claimed): when Retire requests the termination, at least
\* original_desired_capacity instances outside the terminated set are in
\* service at the load balancer.
C1_NoDowntime ==
  [][pc = "Retire" /\ pc' = "Restore"
       => Cardinality(ElbInService(status) \ instances_to_terminate')
            >= original_desired_capacity]_vars

\* ------------------------------------------------------------- C2
\* C2: the Preflight step, when its reads succeed, ends the run with exit
\* code 4 exactly when 2 * desired > max, having issued no mutation and changed
\* nothing at the provider; otherwise it goes on to Mark.
C2_CapacityGate ==
  [][pc = "Preflight" /\ pc' # "Preflight" /\ raised' = "none"
       => IF 2 * desired > maxSize
          THEN /\ pc' = "done"
               /\ exitCode' = ExitCapacity
               /\ calls' = <<>>
               /\ UNCHANGED envVars
          ELSE /\ pc' = "Mark"
               /\ exitCode' = -1]_vars

C2_Witness ==
  /\ exitCode = ExitCapacity
  /\ 2 * desired > maxSize
  /\ calls = <<>>
  /\ steps = <<"Preflight">>

\* ------------------------------------------------------------- C3
CallsOf(op) == {k \in 1..Len(calls) : calls[k].op = op}

\* C3: a polling iteration that finds the count below the target at the
\* ceiling ends the run with exit code 5; a run that ended with exit code 5
\* issued no terminate request and set the desired capacity once, to the
\* doubled value, where it still stands.
C3_TimeoutAbort ==
  /\ [][/\ pc \in {"PollASG", "PollELB"}
        /\ pc' # pc
        /\ raised' = "none"
        /\ time_spent_waiting + PollInterval >= Ceiling
        /\ (pc = "PollASG" => current_asg_healhty_instances < current_desired_capacity)
        /\ (pc = "PollELB" => current_elb_healthy_instances < current_desired_capacity)
        => pc' = "done" /\ exitCode' = ExitTimeout /\ calls' = calls]_vars
  /\ [](exitCode = ExitTimeout
          => /\ CallsOf("terminate_instances") = {}
             /\ Cardinality(CallsOf("set_desired_capacity")) = 1
             /\ \A k \in CallsOf("set_desired_capacity") : calls[k].n = desired
             /\ desired = current_desired_capacity)

C3_Witness ==
  /\ exitCode = ExitTimeout
  /\ steps[Len(steps)] = "AwaitELB"
  /\ desired = 2 * original_desired_capacity
  /\ original_desired_capacity > 0

\* ------------------------------------------------------------- C4
\* C4 (as claimed): in a run where no provider call failed, Retire's
\* terminate request holds every instance that was a member at Mark and still
\* exists.
C4_RetireCompleteness ==
  [][pc = "Retire" /\ pc' = "Restore" /\ raised' = "none"
       => (existing_instances \cap Exists(status)) \subseteq TerminateRequests']_vars

\* ------------------------------------------------------------- C5
\* C5 (as claimed): once Double has run, the desired capacity it set and the
\* target of the polling phases are twice the capacity captured at Mark.
C5_MonotonicDoubling ==
  /\ (pc = "AwaitASG" => desired = 2 * original_desired_capacity)
  /\ (pc \in {"PollASG", "PollELB"}
        => current_desired_capacity = 2 * original_desired_capacity)

\* ------------------------------------------------------------- C6
\* C6: a run that ends on a timeout has waited at least Ceiling and at most
\* Ceiling + PollInterval in the phase that timed out, and no phase goes on
\* polling at or past the ceiling.
C6_TimeoutBoundary ==
  /\ (exitCode = ExitTimeout
        => /\ time_spent_waiting >= Ceiling
           /\ time_spent_waiting <= Ceiling + PollInterval)
  /\ (pc \in {"PollASG", "PollELB"} => time_spent_waiting < Ceiling)

C6_Witness ==
  /\ exitCode = ExitTimeout
  /\ time_spent_waiting = Ceiling
  /\ steps[Len(steps)] = "AwaitASG"

\* ------------------------------------------------------------- C7
Prefix(n) == SubSeq(StepOrder, 1, n)

\* C7 (as claimed): a run ends either with status 0 after the nine steps, or
\* with status 4 after Preflight, or with status 5 in Await-ASG or Await-ELB.
C7_TerminalStates ==
  pc = "done"
    => \/ exitCode = 0 /\ steps = StepOrder
       \/ exitCode = ExitCapacity /\ steps = Prefix(1)
       \/ exitCode = ExitTimeout /\ steps \in {Prefix(5), Prefix(6)}

\* C7 (amended): the steps run in order, once each; a run ends in one of the
\* three ways claimed or, when a provider call raised, with status 1 at the
\* step of that call; status 0 comes only after all nine steps; nothing is
\* executed after the end.
C7_TerminalStatesOrError ==
  /\ [](\E n \in 0..Len(StepOrder) : steps = Prefix(n))
  /\ [](pc = "done"
          => \/ exitCode = 0 /\ steps = StepOrder
             \/ exitCode = ExitCapacity /\ steps = Prefix(1)
             \/ exitCode = ExitTimeout /\ steps \in {Prefix(5), Prefix(6)}
             \/ /\ exitCode = ExitError
                /\ raised # "none"
                /\ steps # <<>>)
  /\ [](pc # "done" => exitCode = -1)
  /\ [][pc = "done" => UNCHANGED <<steps, calls, exitCode, envVars>>]_vars

C7_Witness ==
  /\ pc = "done"
  /\ exitCode = ExitError
  /\ steps = Prefix(3)
  /\ raised = "Freeze"

\* ------------------------------------------------------------- C8
\* C8 (as claimed): once a provider call has failed the run is over: no
\* further step is executed and no further mutation is issued.
C8_ProviderErrorsAbort ==
  [][raised # "none" => steps' = steps /\ calls' = calls]_vars

\* ------------------------------------------------------------- C9
\* C9: a run that ended with status 0 issued, as its last two mutations,
\* set_desired_capacity(original_desired_capacity) and then resume_processes;
\* the desired capacity is the original one and AlarmNotification is active.
C9_SuccessPostcondition ==
  exitCode = 0
    => /\ Len(calls) >= 2
       /\ calls[Len(calls) - 1] =
            Call("set_desired_capacity", {}, original_desired_capacity)
       /\ calls[Len(calls)] = Call("resume_processes", {}, 0)
       /\ desired = original_desired_capacity
       /\ "AlarmNotification" \notin suspended

C9_Witness ==
  /\ exitCode = 0
  /\ original_desired_capacity > 0
  /\ current_desired_capacity = 2 * original_desired_capacity
  /\ desired = original_desired_capacity
  /\ suspended = {}

\* ------------------------------------------------------------- C10
\* C10: terminate_instances with None or an empty sequence makes no provider
\* call, does not raise and changes no instance; with a non-empty sequence it
\* asks the provider to terminate exactly those ids, and no other instance
\* changes.
C10_EmptyTermination ==
  [][ret'.op = "terminate_instances"
       => IF ret'.arg.isNone \/ ret'.arg.ids = {}
          THEN /\ calls' = <<>>
               /\ ~ret'.raised
               /\ status' = status
          ELSE /\ calls' = <<Call("terminate_instances", ret'.arg.ids, 0)>>
               /\ \A i \in AllIds \ ret'.arg.ids : status'[i] = status[i]
               /\ ~ret'.raised
                    => \A i \in ret'.arg.ids : status'[i] = "terminated"]_vars

C10_Witness ==
  /\ ret.op = "terminate_instances"
  /\ ~ret.arg.isNone
  /\ ret.arg.ids = {}
  /\ calls = <<>>
  /\ \E i \in AllIds : status[i] = "terminated"

\* ------------------------------------------------------------- C11
\* C11: when no instance carries the marker, the tag query returns the empty
\* sequence without raising: Retire can run without a failed call, it
\* terminates nothing and calls nothing, and the run goes on to Restore.
C11_EmptyQueryContinues ==
  /\ [](pc = "Retire" /\ Matching = {} => ENABLED (Retire /\ raised' = raised))
  /\ [][pc = "Retire" /\ Matching = {} /\ pc' # pc
         => /\ pc' = "Restore"
            /\ exitCode' = exitCode
            /\ instances_to_terminate' = {}
            /\ calls' = calls
            /\ status' = status]_vars

\* a run that found nothing marked at Retire and ended with status 0
C11_Witness ==
  /\ exitCode = 0
  /\ raised = "none"
  /\ instances_to_terminate = {}
  /\ existing_instances # {}
  /\ steps = StepOrder

\* ------------------------------------------------------------- C12
\* C12: a call of suspend_processes or resume_processes leaves the state of
\* every process other than AlarmNotification as it was; after suspend the
\* alarm process is suspended, after resume it is active.
C12_SuspendResumeFrame ==
  [][/\ suspended' \ {"AlarmNotification"} = suspended \ {"AlarmNotification"}
     /\ (ret'.op = "suspend_processes" => "AlarmNotification" \in suspended')
     /\ (ret'.op = "resume_processes" => "AlarmNotification" \notin suspended')]_vars

\* resume has run on a group that keeps other processes suspended
C12_Witness ==
  /\ ret.op = "resume_processes"
  /\ "AlarmNotification" \notin suspended
  /\ "Launch" \in suspended
  /\ "Terminate" \notin suspended

\* ------------------------------------------------------------- C13
\* C13: from every tag state and for every instance set S, marking S twice
\* leaves the same instances marked as marking S once; a call that repeats
\* the call before it changes no tag.
C13_MarkerIdempotence ==
  /\ [](\A S \in SUBSET Exists(status) :
          tag_instances(tag_instances(tagged, S), S) = tag_instances(tagged, S))
  /\ [][/\ ret.op = "mark_instances_for_termination"
         /\ ret'.op = "mark_instances_for_termination"
         /\ ret'.arg = ret.arg
         => tagged' = tagged]_vars

\* some instances were marked on top of an earlier marker
C13_Witness ==
  /\ ret.op = "mark_instances_for_termination"
  /\ ret.arg.ids # {}
  /\ ret.arg.ids \subseteq tagged
  /\ tagged # ret.arg.ids

\* ------------------------------------------------------------- C14
\* C14: the target is assigned once, from the group's desired capacity right
\* after Double, and no later step changes it; the load-balancer phase is
\* entered only with a scaling-group count that met that target, and is left
\* for Retire only with a load-balancer count that met the same target; a
\* poll changes nothing but the wait counter and its own count.
C14_FixedTargetSequentialPhases ==
  /\ [][current_desired_capacity' # current_desired_capacity
         => /\ pc = "AwaitASG"
            /\ steps[Len(steps)] = "Double"
            /\ current_desired_capacity' = desired]_vars
  /\ []("AwaitELB" \in {steps[k] : k \in 1..Len(steps)} /\ raised # "AwaitELB"
          => current_asg_healhty_instances >= current_desired_capacity)
  /\ []("AwaitELB" \notin {steps[k] : k \in 1..Len(steps)}
          => current_elb_healthy_instances = 0)
  /\ [][pc = "PollELB" /\ pc' = "Retire"
         => current_elb_healthy_instances >= current_desired_capacity]_vars
  /\ [][pc' = pc /\ time_spent_waiting' # time_spent_waiting
         => /\ pc \in {"PollASG", "PollELB"}
            /\ UNCHANGED <<steps, calls, envVars, original_desired_capacity,
                           current_desired_capacity, existing_instances,
                           instances_to_terminate>>
            /\ (pc = "PollASG" => UNCHANGED current_elb_healthy_instances)
            /\ (pc = "PollELB" => UNCHANGED current_asg_healhty_instances)]_vars

\* the second phase is polling, below the target the first phase has met
C14_Witness ==
  /\ pc = "PollELB"
  /\ time_spent_waiting > 0
  /\ current_elb_healthy_instances < current_desired_capacity
  /\ current_asg_healhty_instances >= current_desired_capacity
  /\ current_desired_capacity = 2 * original_desired_capacity

\* ------------------------------------------------------------- C15
\* C15: deploy changes the desired capacity and requests termination only
\* while AlarmNotification is suspended; while it is suspended only deploy
\* changes the desired capacity; the suspension starts at Freeze, before
\* Double, and ends at Unfreeze, after Restore.
C15_FreezeWindow ==
  /\ [][/\ calls' # calls
         /\ calls'[Len(calls')].op \in {"set_desired_capacity", "terminate_instances"}
         => "AlarmNotification" \in suspended]_vars
  /\ [][desired' # desired /\ "AlarmNotification" \in suspended
         => /\ calls' # calls
            /\ calls'[Len(calls')].op = "set_desired_capacity"]_vars
  /\ [][("AlarmNotification" \in suspended') # ("AlarmNotification" \in suspended)
         => \/ pc = "Freeze" /\ pc' = "Double"
            \/ pc = "Unfreeze" /\ "Restore" \in {steps[k] : k \in 1..Len(steps)}]_vars

\* Double, the terminate request and Restore are done, Unfreeze is next, and
\* an alarm had not fired before Freeze
C15_Witness ==
  /\ pc = "Unfreeze"
  /\ ~alarmFired
  /\ TerminateRequests # {}
  /\ Cardinality(CallsOf("set_desired_capacity")) = 2
  /\ "AlarmNotification" \in suspended

\* ------------------------------------------------------------- C16
\* C16: every instance deploy asks the provider to terminate was a member of
\* the deployed group when Mark ran in this run.
C16_RetireSoundness == TerminateRequests \subseteq existing_instances

\* ------------------------------------------------------------- C17
\* members of the deployed group in the InService lifecycle state
GroupInService ==
  {i \in GroupIds : status[i] \in {"InService", "Healthy"}}

\* C17: when the scaling-group polling phase ends in success, at least
\* target members of the deployed group are in service.
C17_GroupScopedHealth ==
  [][pc = "PollASG" /\ pc' = "PollELB"
       => Cardinality(GroupInService) >= current_desired_capacity]_vars

\* ------------------------------------------------------------- C18
\* C18: a run that ended with the timeout status leaves AlarmNotification
\* suspended, the marker on every instance it marked, and the desired
\* capacity at the doubled target; it made no resume call and no second
\* set_desired_capacity call.
C18_AbortLeavesFrozen ==
  exitCode = ExitTimeout
    => /\ "AlarmNotification" \in suspended
       /\ existing_instances \subseteq tagged
       /\ desired = current_desired_capacity
       /\ CallsOf("resume_processes") = {}
       /\ Cardinality(CallsOf("set_desired_capacity")) = 1
       /\ Cardinality(CallsOf("create_tags")) = 1

\* the run timed out in the scaling-group phase
C18_Witness ==
  /\ exitCode = ExitTimeout
  /\ steps[Len(steps)] = "AwaitASG"
  /\ existing_instances # {}
  /\ "AlarmNotification" \in suspended

\* ------------------------------------------------------------- C19
\* the steps of deploy, whatever the provider answers
DeployNext ==
  \/ Preflight
  \/ Mark
  \/ Freeze
  \/ Double
  \/ DoubleRejected
  \/ AwaitASG
  \/ PollASG
  \/ AwaitELB
  \/ PollELB
  \/ ELBHealthy
  \/ Retire
  \/ RetireFails
  \/ Restore
  \/ Unfreeze
  \/ ProviderError

\* sleeps one polling loop can make before its timeout test fires
MaxSleeps == Ceiling \div PollInterval

PcOrder ==
  <<"Preflight", "Mark", "Freeze", "Double", "AwaitASG", "PollASG",
    "PollELB", "Retire", "Restore", "Unfreeze", "done">>

Position == CHOOSE k \in 1..Len(PcOrder) : PcOrder[k] = pc

\* sleeps the run can still make: two loops' worth before the second loop,
\* one loop's worth in it, less the sleeps of the current loop
SleepBudget ==
  IF "AwaitELB" \in {steps[k] : k \in 1..Len(steps)}
  THEN MaxSleeps - time_spent_waiting \div PollInterval
  ELSE 2 * MaxSleeps - time_spent_waiting \div PollInterval

\* what every step of deploy makes smaller
Variant == (Len(PcOrder) - Position) * (2 * MaxSleeps + 1) + SleepBudget

\* C19: deploy always has a next step until it has ended, and each of its
\* steps lowers a measure that is never negative, so a run ends; the sleeps
\* of one loop number at most 30, the counter is 0 when the second loop
\* starts, and every sleep takes one from a budget of 60 that no step
\* raises and that never falls below 0.
C19_Termination ==
  /\ [](Running => ENABLED DeployNext)
  /\ [](Variant >= 0 /\ SleepBudget >= 0)
  /\ [](time_spent_waiting \div PollInterval <= MaxSleeps)
  /\ [][/\ Variant' <= Variant
         /\ SleepBudget' <= SleepBudget
         /\ (progVars' # progVars \/ time_spent_waiting' # time_spent_waiting
               => Variant' < Variant)
         /\ (time_spent_waiting' > time_spent_waiting
               => /\ time_spent_waiting' = time_spent_waiting + PollInterval
                  /\ SleepBudget' = SleepBudget - 1)
         /\ (pc = "PollASG" /\ pc' = "PollELB" => time_spent_waiting' = 0)]_vars

\* the second loop timed out after the first loop had slept
C19_Witness ==
  /\ exitCode = ExitTimeout
  /\ steps[Len(steps)] = "AwaitELB"
  /\ time_spent_waiting = Ceiling
  /\ SleepBudget = 0

\* ------------------------------------------------------------- C20
\* C20: a polling phase ends the run with the timeout status only when the
\* count it would read at that moment, after the last sleep, is below the
\* target.
C20_FinalPoll ==
  [][exitCode' = ExitTimeout /\ exitCode # ExitTimeout
       => /\ (pc = "PollASG"
                => ASG_get_healthy_instance_count < current_desired_capacity)
          /\ (pc = "PollELB"
                => ELB_get_healthy_instance_count < current_desired_capacity)]_vars
====
